---- MODULE Spec2Model ----
(***************************************************************************)
(* State-machine model of the decision core of auto-defi-agent:            *)
(*   - CopyTradingManager   (src/src/copy_trading/copy_trading_manager.py) *)
(*   - APYPredictor         (src/src/ml/apy_predictor.py)                  *)
(*   - AutoDeFiAgent        (src/src/agents/strategy_agent.py)             *)
(*                                                                         *)
(* Units.  Money is counted in cents (1 USD = 100), so that                *)
(* amount_usd * allocation_percent / 100 is exact on the inputs drawn.     *)
(* Time is counted in minutes.  APY is counted in whole percent.           *)
(***************************************************************************)
EXTENDS Integers, Sequences, FiniteSets, TLC

(***************************************************************************)
(* Bounds of the model.                                                    *)
(***************************************************************************)
MaxFollowers == 2      \* follow_trader is offered while total_followers < MaxFollowers
MaxStrategies == 1     \* add_strategy of a new key is offered while fewer keys exist
MaxTraders == 2        \* register_trader is offered while total_traders < MaxTraders
NumTokens == 2         \* values secrets.token_hex(8) is drawn from (2^64 in the program)
MaxVolume == 1         \* copy_order is offered while total_volume < MaxVolume
MaxPoints == 2         \* add_data_point is offered while the pool holds fewer points
MaxNow == 6            \* the clock stops advancing here
MaxPools == 3          \* longest batch handed to scan_opportunities
MaxChecks == 2         \* scan_opportunities is offered while checks < MaxChecks
MaxTransactions == 1   \* execute_strategy is offered while fewer transactions exist
MaxPnl == 500         \* calculate_pnl is offered while |total_pnl| <= MaxPnl (cents)

(***************************************************************************)
(* Inputs.                                                                 *)
(***************************************************************************)
TraderAddrs == {"0x1111", "0x2222"}
LeadTrader == {"0x1111"}     \* the trader whose orders are copied
FollowerAddrs == {"0xA001", "0xA002"}
PoolAddrs == {"0xPOOL1", "0xPOOL2"}
OrderTypes == {"BUY", "SELL"}
Amounts == {0, 10000, 300000}
\* (allocation_percent, min_investment, max_investment); the second entry
\* has the defaults of follow_trader, the last has max_investment <
\* min_investment.
FollowerParams ==
    { <<50, 0, 100000>>, <<100, 1000, 100000>>, <<100, 1000, 500>> }
Tokens == 1..NumTokens
\* (exit_price, entry_price) handed to calculate_pnl
Prices == { <<110, 100>>, <<90, 100>>, <<110, 0>> }
\* arguments of update_trader_stats
NoUpdate == [total_trades |-> {}, win_rate |-> {}, avg_return |-> {},
             followers |-> {}]
StatUpdates ==
    { NoUpdate,
      [NoUpdate EXCEPT !.total_trades = {150}, !.win_rate = {60}],
      [NoUpdate EXCEPT !.avg_return = {20}],
      [NoUpdate EXCEPT !.followers = {60}] }
\* the inputs of the runs over all operations of the manager
ManagerFollows == { <<"0xA001", <<100, 1000, 100000>>>> }
ManagerPrices == { <<110, 100>>, <<110, 0>> }
ManagerUpdates == { [NoUpdate EXCEPT !.total_trades = {150}] }
\* amount_usd of the orders whose pnl is calculated
PnlAmounts == {10000}
\* <<exit_price, entry_price>> of a gain and of a loss of 5 percent
PnlPrices == { <<105, 100>>, <<95, 100>> }
\* the pool of the copied orders
OnePool == {"0xPOOL1"}
\* follow_trader calls of the strategy-gate runs: each follower address
\* with its own settings (a follower may still follow more than once)
GateFollows == { <<"0xA001", <<50, 0, 100000>>>>,
                 <<"0xA002", <<100, 1000, 100000>>>> }

\* Pool addresses handed to the predictor.  The API takes any string; the
\* last one is the only one that datetime.fromisoformat can parse.
PredPools == {"0x1234", "2026-11-02"}
PoolNames == {"CAKE-USDT", "Test Pool"}
Apys == {3, 8}
\* the apy of the snapshots in the runs of the store and the cache
StoreApys == {8}
Tvls == {1000000}
Volumes == {500000}
TickSteps == {3}

\* Histories the predictor is asked about: HistoryLengths snapshots taken
\* every day or every half day (Spacings, in minutes),
\* the last one taken at the time of the call, with values that stay the
\* same, rise from 0, fall (apy to 1, tvl and volume to 0), or creep (the
\* apy goes from 100 to 101 with the last snapshot).
HistoryLengths == {0, 1, 2, 3, 4, 7, 8, 9, 27, 28, 30}
Shapes == {"flat", "rising", "falling", "creeping"}
ShapePoint(shape, i, n) ==
    IF shape = "flat" THEN [apy |-> 8, tvl |-> 100, volume |-> 10]
    ELSE IF shape = "rising"
    THEN [apy |-> i - 1, tvl |-> 50 * (i - 1), volume |-> i]
    ELSE IF shape = "creeping"
    THEN [apy |-> IF i = n THEN 101 ELSE 100, tvl |-> 100, volume |-> 10]
    ELSE [apy |-> 2 * (n - i) + 1, tvl |-> 10 * (n - i), volume |-> 100 * (n - i)]
Spacings == {24 * 60, 12 * 60}
MakeHistory(a, n, shape, spacing, t) ==
    [ i \in 1..n |->
        [ timestamp |-> t - (n - i) * spacing,
          apy |-> ShapePoint(shape, i, n).apy,
          tvl |-> ShapePoint(shape, i, n).tvl,
          volume |-> ShapePoint(shape, i, n).volume,
          pool_address |-> a ] ]
\* times of the calls: a Monday and the Saturday after it, at 00:00
CallTimes == {0, 5 * 24 * 60}

\* Pool records handed to scan_opportunities.
ScanPools ==
    { [name |-> "P1", pool_address |-> "0x1", apy |-> 5, tvl |-> 5000,
       protocol |-> "PancakeSwap", token0 |-> "CAKE", token1 |-> "USDT"],
      [name |-> "P2", pool_address |-> "0x2", apy |-> 25, tvl |-> 100000,
       protocol |-> "PancakeSwap", token0 |-> "CAKE", token1 |-> "BNB"],
      [name |-> "P3", pool_address |-> "0x3", apy |-> 15, tvl |-> 100000,
       protocol |-> "Venus", token0 |-> "BNB", token1 |-> "USDT"],
      [name |-> "P4", pool_address |-> "0x4", apy |-> 25, tvl |-> 10000,
       protocol |-> "NewSwap", token0 |-> "NEW", token1 |-> "BNB"],
      [name |-> "P5", pool_address |-> "0x5", apy |-> 5, tvl |-> 2000000,
       protocol |-> "Venus", token0 |-> "BNB", token1 |-> "USDT"] }
MinApys == {5, 10}
\* Opportunity objects handed to analyze_risk and execute_strategy
RiskTvls == {50000, 100000, 1000000}
RiskApys == {25, 50, 100}
Protocols == {"PancakeSwap", "NewSwap"}
TokenPairs == { <<"CAKE", "USDT">>, <<"CAKEUSDT">> }
\* arguments of create_share_code: create_simple_strategy("CAKE-USDT", 15.0)
\* and a strategy dict that leaves keys to their defaults
SimpleStrategy ==
    [pool_name |-> "CAKE-USDT", min_apy |-> 15, chain |-> "BSC",
     protocol |-> "PancakeSwap", max_slippage |-> 1, risk_level |-> "MEDIUM"]
ShareStrategies == { SimpleStrategy, [pool_name |-> "BNB-USDT"] }
Creators == { <<"", "">>, <<"0x19C9", "AutoDeFi Bot">> }
ExpiresHours == {0, 24}
\* share codes that create_share_code hands out, and one it never does
ShareCodes == {"EYJFDHMIOIAX-6VY4", "EYJFDHMIOIAX-MTG3"}
AnyCodes == ShareCodes \cup {"TEST1234-XYZ1"}
\* contents of traders.json: absent, not JSON, or an object of entries, of
\* which the last kind of entry lacks keys
SavedTrader ==
    [address |-> "0x1111", total_trades |-> 150, win_rate |-> 60,
     avg_return |-> 20, followers |-> 3, is_verified |-> TRUE]
PartialTrader == [address |-> "0x2222", total_trades |-> 10]
TraderFiles ==
    { [kind |-> "missing"], [kind |-> "malformed"],
      [kind |-> "object", entries |-> <<SavedTrader>>],
      [kind |-> "object", entries |-> <<SavedTrader, PartialTrader>>] }
\* the file loaded in the leaderboard runs, and the limits asked for
BoardFiles == { [kind |-> "object", entries |-> <<SavedTrader>>] }
Limits == {0, 1, 10}
\* contents of agent_state.json: absent, not JSON, a JSON array, or an
\* object with ({m}) or without ({}) the key "metrics"
SavedMetrics ==
    [checks |-> 1, opportunities_found |-> 1, executed |-> 0, errors |-> 0]
AgentFiles ==
    { [kind |-> "missing"], [kind |-> "malformed"], [kind |-> "array"],
      [kind |-> "object", metrics |-> {}],
      [kind |-> "object", metrics |-> {SavedMetrics}] }
Opps(tvls, apys, protocols, pairs) ==
    { [ pool_name |-> "Pool", protocol |-> pr, apy |-> a, tvl |-> t,
        token_pair |-> tp, contract_address |-> "0x9", confidence |-> 0 ] :
      t \in tvls, a \in apys, pr \in protocols, tp \in pairs }

\* program constants
CacheTTL == 5                     \* timedelta(minutes=5)
HistoryMinutes == 90 * 24 * 60    \* ModelConfig.max_history_days
\* an explicit timestamp= argument of add_data_point: 90 days less two
\* minutes before minute 0
OldStamps == {2 - HistoryMinutes}
\* the timestamp= argument: {} when it is left out, {t} when it is given
StampArgs == {{}} \cup { {s} : s \in OldStamps }
DefaultApy == 5                   \* current_apy of a pool without history
TvlFloor == 10000                 \* "$10k minimum" of scan_opportunities

None == [is_none |-> TRUE]

VARIABLES
    traders,      \* self.traders:    the Trader records, in the order of the dict
    followers,    \* self.followers:  trader address -> list of Follower
    orders,       \* self.orders:     order id -> CopyOrder
    strategies,   \* self.strategies: key -> StrategyConfig
    stats,        \* self.stats
    ret,          \* the last call of the manager: operation, arguments, return value
    pool_data,          \* APYPredictor.pool_data: pool address -> list of APYDataPoint
    predictions_cache,  \* APYPredictor._predictions_cache: pool address -> APYPrediction
    now,                \* datetime.now(), in minutes
    pret,         \* the last call of the predictor
    min_apy,      \* AutoDeFiAgent.config.min_apy
    opportunities,\* AutoDeFiAgent.opportunities
    metrics,      \* AutoDeFiAgent.metrics
    sret,         \* the last call of the agent
    auto_execute, \* AutoDeFiAgent.config.auto_execute
    state,        \* AutoDeFiAgent.state
    running,      \* AutoDeFiAgent.running
    transactions, \* AutoDeFiAgent.transactions
    share_codes,  \* StrategySharer.share_codes: share code -> the stored dict
    hret          \* the last call of the sharer: operation, arguments, return value

copyVars == <<traders, followers, orders, strategies, stats, ret>>
predVars == <<pool_data, predictions_cache, now, pret>>
agentVars == <<min_apy, opportunities, metrics, sret,
               auto_execute, state, running, transactions>>
shareVars == <<share_codes, hret>>

(***************************************************************************)
(* CopyTradingManager: helpers.                                            *)
(***************************************************************************)
Min(a, b) == IF a < b THEN a ELSE b
Max(a, b) == IF a > b THEN a ELSE b

RECURSIVE SumAmounts(_)
SumAmounts(s) == IF s = <<>> THEN 0 ELSE Head(s).amount_usd + SumAmounts(Tail(s))

\* position of the address in self.traders, 0 if it is not registered
TraderIndex(a) ==
    IF \E i \in 1..Len(traders) : traders[i].address = a
    THEN CHOOSE i \in 1..Len(traders) : traders[i].address = a
    ELSE 0

\* Trader(address=..., name=..., strategies=...): the dataclass defaults.
\* win_rate is counted in percent, avg_return in whole percent.
NewTrader(a) ==
    [address |-> a, total_trades |-> 0, win_rate |-> 0, avg_return |-> 0,
     followers |-> 0, is_verified |-> FALSE]

\* self.traders[address] = trader: a registered address keeps its place
PutTrader(ts, tr) ==
    IF \E i \in 1..Len(ts) : ts[i].address = tr.address
    THEN [i \in 1..Len(ts) |-> IF ts[i].address = tr.address THEN tr ELSE ts[i]]
    ELSE Append(ts, tr)

\* self.followers.get(trader_address, [])
GetFollowers(t) == IF t \in DOMAIN followers THEN followers[t] ELSE <<>>

\* StrategyKey that leaves the pool out of the key
StrategyKeyNoPool(f, p) == f \o ":"

\* f"{follower_address}:{pool_address}"
StrategyKey(f, p) == f \o ":" \o p

\* self.strategies.get(key)
GetStrategy(f, p) ==
    IF StrategyKey(f, p) \in DOMAIN strategies
    THEN strategies[StrategyKey(f, p)] ELSE None

\* "if strategy and not strategy.auto_copy: continue"
GatedOff(f, p) ==
    LET strategy == GetStrategy(f, p)
    IN  strategy # None /\ ~strategy.auto_copy

\* InvestAmount without the cap at max_investment
InvestAmountNoCap(amount, f) == (amount * f.allocation_percent) \div 100

\* invest_amount = min(amount_usd * (allocation_percent / 100), max_investment)
InvestAmount(amount, f) ==
    Min((amount * f.allocation_percent) \div 100, f.max_investment)

\* BelowMin that also skips an amount equal to min_investment
BelowMinInclusive(amount, f) == InvestAmount(amount, f) <= f.min_investment

\* "if invest_amount < follower.min_investment: continue"
BelowMin(amount, f) == InvestAmount(amount, f) < f.min_investment

\* f"order_{secrets.token_hex(8)}": the token is drawn at random, with no
\* test against the ids in self.orders.
OrderId(tok) == <<"order", tok>>

\* The for loop of copy_order over the follower list fl; toks are the
\* tokens drawn by the successive calls of _generate_order_id.
RECURSIVE CopyLoop(_, _, _, _, _, _)
CopyLoop(fl, t, p, ot, amount, toks) ==
    IF fl = <<>> THEN <<>>
    ELSE LET f == Head(fl) IN
         IF GatedOff(f.address, p) \/ BelowMin(amount, f)
         THEN CopyLoop(Tail(fl), t, p, ot, amount, toks)
         ELSE << [ order_id |-> OrderId(Head(toks)),
                   trader_address |-> t,
                   follower_address |-> f.address,
                   pool_address |-> p,
                   order_type |-> ot,
                   amount_usd |-> InvestAmount(amount, f),
                   status |-> "PENDING",
                   pnl |-> 0,
                   pnl_percent |-> 0 ] >>
              \o CopyLoop(Tail(fl), t, p, ot, amount, Tail(toks))

\* number of followers for which the loop reaches _generate_order_id
RECURSIVE NumCreated(_, _, _)
NumCreated(fl, p, amount) ==
    IF fl = <<>> THEN 0
    ELSE (IF GatedOff(Head(fl).address, p) \/ BelowMin(amount, Head(fl))
          THEN 0 ELSE 1) + NumCreated(Tail(fl), p, amount)

\* self.orders[order.order_id] = order, for the created orders in turn
RECURSIVE StoreOrders(_, _)
StoreOrders(os, created) ==
    IF created = <<>> THEN os
    ELSE LET o == Head(created)
             d == DOMAIN os \cup {o.order_id}
         IN  StoreOrders([id \in d |-> IF id = o.order_id THEN o ELSE os[id]],
                         Tail(created))

\* index of the first follower of the list with the address, 0 if none
FirstIndex(fl, a) ==
    IF \E i \in 1..Len(fl) : fl[i].address = a
    THEN CHOOSE i \in 1..Len(fl) :
            /\ fl[i].address = a
            /\ \A j \in 1..(i - 1) : fl[j].address # a
    ELSE 0

\* Pop that removes every entry with the address of entry i
PopAll(fl, i) == SelectSeq(fl, LAMBDA f : f.address # fl[i].address)

\* followers.pop(i)
Pop(fl, i) == SubSeq(fl, 1, i - 1) \o SubSeq(fl, i + 1, Len(fl))

(***************************************************************************)
(* CopyTradingManager: operations.                                         *)
(***************************************************************************)
RegisterTrader(a) ==
    /\ stats.total_traders < MaxTraders
    /\ traders' = PutTrader(traders, NewTrader(a))
    /\ stats' = [stats EXCEPT !.total_traders = @ + 1]
    /\ ret' = [op |-> "register_trader"]
    /\ UNCHANGED <<followers, orders, strategies>>
    /\ UNCHANGED <<predVars, agentVars, shareVars>>

FollowTrader(fa, t, prm) ==
    /\ stats.total_followers < MaxFollowers
    /\ LET follower == [ address |-> fa, trader_address |-> t,
                         allocation_percent |-> prm[1],
                         min_investment |-> prm[2],
                         max_investment |-> prm[3] ]
           fl == GetFollowers(t) \o <<follower>>
       IN  /\ followers' = [x \in DOMAIN followers \cup {t} |->
                              IF x = t THEN fl ELSE followers[x]]
           /\ traders' = IF TraderIndex(t) > 0
                         THEN [traders EXCEPT
                                 ![TraderIndex(t)].followers = Len(fl)]
                         ELSE traders
    /\ stats' = [stats EXCEPT !.total_followers = @ + 1]
    /\ ret' = [op |-> "follow_trader"]
    /\ UNCHANGED <<orders, strategies>>
    /\ UNCHANGED <<predVars, agentVars, shareVars>>

UnfollowTrader(fa, t) ==
    LET fl == GetFollowers(t)
        i == FirstIndex(fl, fa)
    IN  /\ IF i > 0
           THEN /\ followers' = [followers EXCEPT ![t] = Pop(fl, i)]
                /\ stats' = [stats EXCEPT !.total_followers = @ - 1]
           ELSE UNCHANGED <<followers, stats>>
        /\ ret' = [op |-> "unfollow_trader", follower |-> fa, trader |-> t,
                   val |-> (i > 0)]
        /\ UNCHANGED <<traders, orders, strategies>>
        /\ UNCHANGED <<predVars, agentVars, shareVars>>

AddStrategy(fa, p, auto) ==
    LET key == StrategyKey(fa, p) IN
    /\ key \in DOMAIN strategies
         \/ Cardinality(DOMAIN strategies) < MaxStrategies
    /\ strategies' = [k \in DOMAIN strategies \cup {key} |->
                        IF k = key
                        THEN [pool_address |-> p, auto_copy |-> auto]
                        ELSE strategies[k]]
    /\ ret' = [op |-> "add_strategy"]
    /\ UNCHANGED <<traders, followers, orders, stats>>
    /\ UNCHANGED <<predVars, agentVars, shareVars>>

RemoveStrategy(fa, p) ==
    LET key == StrategyKey(fa, p) IN
    /\ IF key \in DOMAIN strategies
       THEN strategies' = [k \in DOMAIN strategies \ {key} |-> strategies[k]]
       ELSE UNCHANGED strategies
    /\ ret' = [op |-> "remove_strategy", key |-> key,
               val |-> (key \in DOMAIN strategies)]
    /\ UNCHANGED <<traders, followers, orders, stats>>
    /\ UNCHANGED <<predVars, agentVars, shareVars>>

CopyOrder(t, p, ot, amount) ==
    /\ stats.total_volume < MaxVolume
    /\ \E toks \in [1..NumCreated(GetFollowers(t), p, amount) -> Tokens] :
         LET created == CopyLoop(GetFollowers(t), t, p, ot, amount, toks)
         IN  /\ orders' = StoreOrders(orders, created)
             /\ stats' = [stats EXCEPT
                            !.total_volume = @ + SumAmounts(created)]
             /\ ret' = [op |-> "copy_order", trader |-> t, pool |-> p,
                        amount |-> amount,
                        val |-> created]
    /\ UNCHANGED <<traders, followers, strategies>>
    /\ UNCHANGED <<predVars, agentVars, shareVars>>

ExecuteOrder(id) ==
    /\ IF id \in DOMAIN orders
       THEN orders' = [orders EXCEPT ![id].status = "EXECUTED"]
       ELSE UNCHANGED orders
    /\ ret' = [op |-> "execute_order", id |-> id, val |-> (id \in DOMAIN orders)]
    /\ UNCHANGED <<traders, followers, strategies, stats>>
    /\ UNCHANGED <<predVars, agentVars, shareVars>>

CancelOrder(id) ==
    /\ IF id \in DOMAIN orders
       THEN orders' = [orders EXCEPT ![id].status = "CANCELLED"]
       ELSE UNCHANGED orders
    /\ ret' = [op |-> "cancel_order", id |-> id, val |-> (id \in DOMAIN orders)]
    /\ UNCHANGED <<traders, followers, strategies, stats>>
    /\ UNCHANGED <<predVars, agentVars, shareVars>>

\* update_trader_stats: an argument left out (None) is {}, one that is
\* given is {value}
Given(arg, old) == IF arg = {} THEN old ELSE CHOOSE v \in arg : TRUE

UpdateTraderStats(a, upd) ==
    LET i == TraderIndex(a) IN
    /\ IF i > 0
       THEN traders' = [traders EXCEPT ![i] =
                [ address |-> a,
                  total_trades |-> Given(upd.total_trades, @.total_trades),
                  win_rate |-> Given(upd.win_rate, @.win_rate),
                  avg_return |-> Given(upd.avg_return, @.avg_return),
                  followers |-> Given(upd.followers, @.followers),
                  is_verified |-> @.is_verified ]]
       ELSE UNCHANGED traders
    /\ ret' = [op |-> "update_trader_stats", trader |-> a, val |-> None]
    /\ UNCHANGED <<followers, orders, strategies, stats>>
    /\ UNCHANGED <<predVars, agentVars, shareVars>>

\* pnl_percent of calculate_pnl, in basis points; entry_price is not 0
PnlPercent(ot, exit_price, entry_price) ==
    IF ot = "BUY"
    THEN ((exit_price - entry_price) * 10000) \div entry_price
    ELSE ((entry_price - exit_price) * 10000) \div entry_price

\* PnlRaises with the division ahead of the lookup of the order
PnlRaisesAnyOrder(id, entry_price) == entry_price = 0

\* the division by entry_price raises ZeroDivisionError when entry_price
\* is 0; it is reached for the ids of self.orders only
PnlRaises(id, entry_price) == id \in DOMAIN orders /\ entry_price = 0

\* calculate_pnl: returns 0.0 for an unknown id; otherwise divides by
\* entry_price, and nothing is assigned when the division raises
CalculatePnl(id, exit_price, entry_price) ==
    /\ stats.total_pnl \in (0 - MaxPnl)..MaxPnl
    /\ IF PnlRaises(id, entry_price)
       THEN /\ ret' = [op |-> "calculate_pnl", id |-> id, outcome |-> "raised"]
            /\ UNCHANGED <<orders, stats>>
       ELSE IF id \notin DOMAIN orders
       THEN /\ ret' = [op |-> "calculate_pnl", id |-> id, outcome |-> "returned",
                       val |-> 0]
            /\ UNCHANGED <<orders, stats>>
       ELSE LET pct == PnlPercent(orders[id].order_type, exit_price, entry_price)
                pnl == (orders[id].amount_usd * pct) \div 10000
            IN  /\ orders' = [orders EXCEPT ![id].pnl_percent = pct,
                                            ![id].pnl = pnl]
                /\ stats' = [stats EXCEPT !.total_pnl = @ + pnl]
                /\ ret' = [op |-> "calculate_pnl", id |-> id,
                           outcome |-> "returned", val |-> pnl]
    /\ UNCHANGED <<traders, followers, strategies>>
    /\ UNCHANGED <<predVars, agentVars, shareVars>>

\* _calculate_score, in hundredths: avg_return * 0.4 + win_rate * 30 * 0.3
\* + min(total_trades / 100, 1) * 10 * 0.1 + min(followers / 50, 1) * 10 * 0.1
\* + 10 * 0.1 if verified  (win_rate in percent, so win_rate * 9 / 100)
CalculateScore(tr) ==
      40 * tr.avg_return
    + 9 * tr.win_rate
    + Min(tr.total_trades, 100)
    + 2 * Min(tr.followers, 50)
    + (IF tr.is_verified THEN 100 ELSE 0)

\* the entry of the leaderboard for a trader
LeaderEntry(tr) ==
    [ address |-> tr.address, total_trades |-> tr.total_trades,
      win_rate |-> tr.win_rate, avg_return |-> tr.avg_return,
      followers |-> tr.followers, is_verified |-> tr.is_verified,
      score |-> CalculateScore(tr) ]

\* sorted(leaders, key=lambda x: x["score"], reverse=True): stable, so an
\* entry goes behind the entries with a score at least as large
RECURSIVE SortByScore(_)
SortByScore(s) ==
    IF s = <<>> THEN <<>>
    ELSE LET front == SortByScore(SubSeq(s, 1, Len(s) - 1))
             e == s[Len(s)]
             k == Cardinality({ i \in 1..Len(front) : front[i].score >= e.score })
         IN  SubSeq(front, 1, k) \o <<e>> \o SubSeq(front, k + 1, Len(front))

\* Slice that keeps one entry more than the limit
SliceOneMore(s, limit) == SubSeq(s, 1, Min(limit + 1, Len(s)))

\* s[:limit]; a negative limit counts from the end of the list
Slice(s, limit) ==
    IF limit >= 0 THEN SubSeq(s, 1, Min(limit, Len(s)))
    ELSE SubSeq(s, 1, Max(Len(s) + limit, 0))

GetLeaderboard(limit) ==
    /\ ret' = [op |-> "get_leaderboard", limit |-> limit,
               val |-> Slice(SortByScore([i \in 1..Len(traders) |->
                                            LeaderEntry(traders[i])]), limit)]
    /\ UNCHANGED <<traders, followers, orders, strategies, stats>>
    /\ UNCHANGED <<predVars, agentVars, shareVars>>

\* the keys load_data reads of an entry of traders.json
TraderKeys == {"address", "total_trades", "win_rate", "avg_return",
               "followers", "is_verified"}

\* the for loop of load_data over the entries of the file: the traders
\* stored when the loop ends or an entry raises KeyError
RECURSIVE LoadLoop(_, _)
LoadLoop(ts, entries) ==
    IF entries = <<>> \/ DOMAIN Head(entries) # TraderKeys THEN ts
    ELSE LoadLoop(PutTrader(ts, Head(entries)), Tail(entries))

\* load_data has no exception handler: json.load raises JSONDecodeError on
\* a malformed file and an entry without one of the keys raises KeyError,
\* after the entries in front of it were stored and before total_traders
\* is set.  A missing file is skipped by the exists() test.
LoadData(file) ==
    /\ IF file.kind = "missing"
       THEN /\ ret' = [op |-> "load_data", file |-> file.kind,
                       outcome |-> "returned"]
            /\ UNCHANGED <<traders, stats>>
       ELSE IF file.kind = "malformed"
       THEN /\ ret' = [op |-> "load_data", file |-> file.kind,
                       outcome |-> "raised"]
            /\ UNCHANGED <<traders, stats>>
       ELSE LET loaded == LoadLoop(traders, file.entries)
                complete == \A i \in 1..Len(file.entries) :
                               DOMAIN file.entries[i] = TraderKeys
            IN  /\ traders' = loaded
                /\ IF complete
                   THEN /\ stats' = [stats EXCEPT !.total_traders = Len(loaded)]
                        /\ ret' = [op |-> "load_data", file |-> file.kind,
                                   outcome |-> "returned"]
                   ELSE /\ UNCHANGED stats
                        /\ ret' = [op |-> "load_data", file |-> file.kind,
                                   outcome |-> "raised"]
    /\ UNCHANGED <<followers, orders, strategies>>
    /\ UNCHANGED <<predVars, agentVars, shareVars>>

CopyInit ==
    /\ traders = <<>>
    /\ followers = <<>>
    /\ orders = <<>>
    /\ strategies = <<>>
    /\ stats = [total_traders |-> 0, total_followers |-> 0,
                total_volume |-> 0, total_pnl |-> 0]
    /\ ret = [op |-> "init"]

(***************************************************************************)
(* APYPredictor.                                                           *)
(***************************************************************************)
ParseError == -1

\* datetime.fromisoformat(s), as minutes since 2026-11-02T00:00; it raises
\* ValueError on a string that is not an ISO date.
FromIsoFormat(s) == IF s = "2026-11-02" THEN 0 ELSE ParseError

History(a) == IF a \in DOMAIN pool_data THEN pool_data[a] ELSE <<>>

\* _cleanup_expired_data: keep the points with timestamp >= cutoff
CleanupExpired(h, t) ==
    SelectSeq(h, LAMBDA p : p.timestamp >= t - HistoryMinutes)

(***************************************************************************)
(* Exact fractions <<numerator, denominator>>, denominator > 0, in lowest  *)
(* terms, for the float arithmetic of the predictor.                       *)
(***************************************************************************)
Abs(n) == IF n < 0 THEN 0 - n ELSE n

RECURSIVE GCD(_, _)
GCD(a, b) == IF b = 0 THEN a ELSE GCD(b, a % b)

Frac(n, d) ==
    LET g == GCD(Abs(n), d) IN <<n \div g, d \div g>>
R(n) == <<n, 1>>
RAdd(x, y) == Frac(x[1] * y[2] + y[1] * x[2], x[2] * y[2])
RSub(x, y) == Frac(x[1] * y[2] - y[1] * x[2], x[2] * y[2])
RMul(x, y) == Frac(x[1] * y[1], x[2] * y[2])
\* x / y for y > 0
RDiv(x, y) == Frac(x[1] * y[2], x[2] * y[1])
RLt(x, y) == x[1] * y[2] < y[1] * x[2]
RMax(x, y) == IF RLt(x, y) THEN y ELSE x
RAbs(x) == <<Abs(x[1]), x[2]>>

(***************************************************************************)
(* APYPredictor: features and prediction.                                  *)
(***************************************************************************)
WindowSize == 7                   \* ModelConfig.window_size, in days
MinDataPoints == 3                \* ModelConfig.min_data_points
DayMinutes == 24 * 60

RECURSIVE SumSeq(_)
SumSeq(v) == IF v = <<>> THEN 0 ELSE Head(v) + SumSeq(Tail(v))

\* _calculate_slope: least-squares slope of the values over x = 0..n-1
CalculateSlope(v) ==
    LET n == Len(v)
        sum_x == SumSeq([i \in 1..n |-> i - 1])
        sum_y == SumSeq(v)
        sum_xy == SumSeq([i \in 1..n |-> (i - 1) * v[i]])
        sum_xx == SumSeq([i \in 1..n |-> (i - 1) * (i - 1)])
        denominator == n * sum_xx - sum_x * sum_x
    IN  IF n < 2 \/ denominator = 0 THEN R(0)
        ELSE Frac(n * sum_xy - sum_x * sum_y, denominator)

\* statistics.mean of a non-empty list
Mean(v) == Frac(SumSeq(v), Len(v))

\* the snapshots the features are computed from: those of history[-window:]
\* that lie within the window, or the whole history when fewer than
\* min_data_points of them do
Recent(h, t) ==
    LET last == SubSeq(h, Max(1, Len(h) - WindowSize + 1), Len(h))
        inside == SelectSeq(last, LAMBDA p :
                              p.timestamp >= t - WindowSize * DayMinutes)
    IN  IF Len(inside) < MinDataPoints THEN h ELSE inside

\* datetime.now().weekday() in [5, 6]; minute 0 is a Monday, 00:00
Weekend(t) == ((t \div DayMinutes) % 7) \in {5, 6}

DefaultFeatures ==
    [apy_trend |-> R(0), tvl_change |-> R(0), volume_trend |-> R(0),
     momentum |-> R(0), seasonality |-> R(0)]

\* max(x, 0.01) for a value x that is a whole number
FloorHundredth(x) == IF x >= 1 THEN R(x) ELSE Frac(1, 100)

\* the momentum feature of the apy values of recent
Momentum(apys) ==
    LET n == Len(apys) IN
    IF n >= 7
    THEN LET short_term == Mean(SubSeq(apys, n - 2, n))
             long_term == Mean(SubSeq(apys, 1, n - 3))
         IN  RDiv(RSub(short_term, long_term),
                  RMax(long_term, Frac(1, 100)))
    ELSE IF n >= 4
    THEN RDiv(R(apys[n] - apys[1]), FloorHundredth(apys[1]))
    ELSE R(0)

\* the five features of _extract_features, from the snapshots in recent
FeaturesOf(recent, t) ==
    LET n == Len(recent)
        apys == [i \in 1..n |-> recent[i].apy]
    IN  [ apy_trend |-> CalculateSlope(apys),
          tvl_change |->
              IF n >= 2
              THEN Frac(recent[n].tvl - recent[1].tvl, Max(recent[1].tvl, 1))
              ELSE R(0),
          volume_trend |-> CalculateSlope([i \in 1..n |-> recent[i].volume]),
          momentum |-> Momentum(apys),
          seasonality |-> IF Weekend(t) THEN Frac(5, 100) ELSE R(0) ]

\* _extract_features for the history h at time t
ExtractFeatures(h, t) ==
    IF Len(h) < MinDataPoints THEN DefaultFeatures
    ELSE FeaturesOf(Recent(h, t), t)

\* the score of _calculate_prediction_score, with the default weights
\* 0.25, 0.20, 0.15, 0.25, 0.15
PredictionScore(f) ==
    RAdd(RAdd(RAdd(RAdd(RMul(f.apy_trend, Frac(25, 10)),
                        RMul(f.tvl_change, R(2))),
                   RMul(f.volume_trend, Frac(15, 10))),
              RMul(f.momentum, Frac(25, 10))),
         RMul(f.seasonality, Frac(15, 100)))

Trend(score) ==
    IF RLt(Frac(5, 100), score) THEN "UP"
    ELSE IF RLt(score, Frac(-5, 100)) THEN "DOWN"
    ELSE "STABLE"

\* an add_data_point that leaves the cache as it is
KeepCache(cache, a) == cache

\* "if pool_address in self._predictions_cache: del ..."
DropCache(cache, a) == [x \in DOMAIN cache \ {a} |-> cache[x]]

\* min(data_points / 30, 1.0) * 0.7 + 0.3, at most 0.95; in units of 1/3000
Confidence(n) == Min(Min(n, 30) * 70 + 900, 2850)

\* ConfidenceThreshold is ModelConfig.confidence_threshold = 0.5, in the
\* units of Confidence
ConfidenceThreshold == 1500

\* risk_score of predict, in tenths
RiskScore(f, confidence) ==
    Min(  (IF RLt(Frac(2, 10), RAbs(f.apy_trend)) THEN 2 ELSE 0)
        + (IF RLt(Frac(3, 10), RAbs(f.tvl_change)) THEN 2 ELSE 0)
        + (IF confidence < ConfidenceThreshold THEN 3 ELSE 0), 10)

\* a recommendation that follows the trend alone
RecommendByTrend(current_apy, predicted_24h, trend, confidence, risk_score) ==
    IF trend = "UP" THEN "BUY" ELSE IF trend = "DOWN" THEN "SELL" ELSE "HOLD"

\* _generate_recommendation; risk_score in tenths
GenerateRecommendation(current_apy, predicted_24h, trend, confidence, risk_score) ==
    IF confidence < ConfidenceThreshold THEN "HOLD"
    ELSE LET apy_change_pct == RDiv(RSub(predicted_24h, R(current_apy)),
                                    FloorHundredth(current_apy))
         IN  IF risk_score > 7
             THEN IF trend = "UP" /\ RLt(Frac(1, 10), apy_change_pct)
                  THEN "HOLD" ELSE "SELL"
             ELSE IF trend = "UP" /\ RLt(Frac(8, 100), apy_change_pct)
             THEN "BUY"
             ELSE IF trend = "DOWN" /\ RLt(apy_change_pct, Frac(-8, 100))
             THEN "SELL"
             ELSE "HOLD"

\* a prediction that is not floored
NoFloor(x) == x

\* max(predicted, 0): "APY cannot be negative"
FloorAtZero(x) == RMax(x, R(0))

\* the APYPrediction predict builds at time t; current_apy is a whole
\* number, the predicted values are fractions
MakePrediction(a, name) ==
    LET h == History(a)
        f == ExtractFeatures(h, now)
        current_apy == IF h # <<>> THEN h[Len(h)].apy ELSE DefaultApy
        score == PredictionScore(f)
        trend == Trend(score)
        daily_change == IF f.apy_trend # R(0) THEN RDiv(score, R(7)) ELSE score
        predicted_24h ==
            FloorAtZero(RMul(R(current_apy),
                             RAdd(RAdd(R(1), daily_change), f.seasonality)))
        predicted_7d ==
            FloorAtZero(RMul(R(current_apy),
                             RAdd(RAdd(RAdd(R(1), RMul(daily_change, R(7))),
                                       RMul(f.momentum, R(7))),
                                  f.seasonality)))
        confidence == Confidence(Len(h))
    IN  [ pool_name |-> name,
          pool_address |-> a,
          current_apy |-> current_apy,
          predicted_apy_24h |-> predicted_24h,
          predicted_apy_7d |-> predicted_7d,
          trend |-> trend,
          confidence |-> confidence,
          recommendation |->
              GenerateRecommendation(current_apy, predicted_24h, trend,
                                     confidence, RiskScore(f, confidence)) ]

AddDataPoint(a, apy, tvl, volume, timestamp) ==
    /\ Len(History(a)) < MaxPoints
    /\ LET ts == IF timestamp = {} THEN now
                 ELSE CHOOSE s \in timestamp : TRUE
           point == [timestamp |-> ts, apy |-> apy, tvl |-> tvl,
                     volume |-> volume, pool_address |-> a]
           h == CleanupExpired(History(a) \o <<point>>, now)
       IN  pool_data' = [x \in DOMAIN pool_data \cup {a} |->
                           IF x = a THEN h ELSE pool_data[x]]
    /\ predictions_cache' = DropCache(predictions_cache, a)
    /\ pret' = [op |-> "add_data_point", pool |-> a,
                dropped |-> (a \in DOMAIN predictions_cache)]
    /\ UNCHANGED now
    /\ UNCHANGED <<copyVars, agentVars, shareVars>>

\* predict: outcome is "raised" (ValueError out of the cache test),
\* "cached" (the cached prediction is returned) or "computed"
Predict(a, name) ==
    LET hit == a \in DOMAIN predictions_cache
        stamp == IF hit THEN FromIsoFormat(predictions_cache[a].pool_address)
                 ELSE ParseError
    IN  /\ IF hit /\ stamp = ParseError
           THEN /\ pret' = [op |-> "predict", pool |-> a, at |-> now,
                            outcome |-> "raised"]
                /\ UNCHANGED predictions_cache
           ELSE IF hit /\ now - stamp < CacheTTL
           THEN /\ pret' = [op |-> "predict", pool |-> a, at |-> now,
                            outcome |-> "cached",
                            val |-> predictions_cache[a]]
                /\ UNCHANGED predictions_cache
           ELSE /\ pret' = [op |-> "predict", pool |-> a, at |-> now,
                            outcome |-> "computed",
                            val |-> MakePrediction(a, name)]
                /\ predictions_cache' =
                      [x \in DOMAIN predictions_cache \cup {a} |->
                         IF x = a THEN MakePrediction(a, name)
                         ELSE predictions_cache[x]]
        /\ UNCHANGED <<pool_data, now>>
        /\ UNCHANGED <<copyVars, agentVars, shareVars>>

\* statistics.stdev(v) / statistics.mean(v), squared: the sample variance
\* over the square of the mean; 0 when the mean is not positive
VolatilitySquared(v) ==
    LET n == Len(v)
        total == SumSeq(v)
        \* sum of (n * x - total)^2 = n^2 * sum of (x - mean)^2
        spread == SumSeq([i \in 1..n |-> (n * v[i] - total) * (n * v[i] - total)])
    IN  IF total > 0 THEN Frac(spread, (n - 1) * total * total) ELSE R(0)

\* volatility * 0.5 + abs(tvl_change) * 0.3 + 0.2 < limit, for the
\* volatility given by its square
RiskBelow(vol2, tvl_change, limit) ==
    LET room == RMul(R(2), RSub(RSub(limit, Frac(2, 10)),
                                RMul(RAbs(tvl_change), Frac(3, 10))))
    IN  RLt(R(0), room) /\ RLt(vol2, RMul(room, room))

\* get_risk_analysis; of the dict the model keeps risk_level and data_points
RiskOfHistory(h) ==
    IF Len(h) < 2 THEN [risk_level |-> "UNKNOWN"]
    ELSE LET vol2 == VolatilitySquared([i \in 1..Len(h) |-> h[i].apy])
             tvl_change == IF h[1].tvl > 0
                           THEN Frac(h[Len(h)].tvl - h[1].tvl, Max(h[1].tvl, 1))
                           ELSE R(0)
         IN  [ risk_level |->
                  IF RiskBelow(vol2, tvl_change, Frac(3, 10)) THEN "LOW"
                  ELSE IF RiskBelow(vol2, tvl_change, Frac(6, 10)) THEN "MEDIUM"
                  ELSE "HIGH",
               data_points |-> Len(h) ]

GetRiskAnalysis(a) ==
    /\ pret' = [op |-> "get_risk_analysis", pool |-> a,
                val |-> RiskOfHistory(History(a))]
    /\ UNCHANGED <<pool_data, predictions_cache, now>>
    /\ UNCHANGED <<copyVars, agentVars, shareVars>>

\* the clock advances between calls
Tick(d) ==
    /\ now + d <= MaxNow
    /\ now' = now + d
    /\ UNCHANGED <<pool_data, predictions_cache, pret>>
    /\ UNCHANGED <<copyVars, agentVars, shareVars>>

PredInit ==
    /\ pool_data = <<>>
    /\ predictions_cache = <<>>
    /\ now = 0
    /\ pret = [op |-> "init"]

(***************************************************************************)
(* AutoDeFiAgent.                                                          *)
(***************************************************************************)
\* min(1.0, (tvl / 1000000) * 0.5 + (apy / 100) * 0.5), in units of 1/2000000
ScanConfidence(pool) == Min(2000000, pool.tvl + pool.apy * 10000)

\* "if pool.apy < self.config.min_apy: continue" and
\* "if pool.tvl < 10000: continue"
Skipped(pool) == pool.apy < min_apy \/ pool.tvl < TvlFloor

\* token_pair is kept as the list of its parts between the "/"
MakeOpportunity(pool) ==
    [ pool_name |-> pool.name, protocol |-> pool.protocol,
      apy |-> pool.apy, tvl |-> pool.tvl,
      token_pair |-> <<pool.token0, pool.token1>>,
      contract_address |-> pool.pool_address,
      confidence |-> ScanConfidence(pool) ]

\* the for loop of scan_opportunities
RECURSIVE ScanLoop(_)
ScanLoop(pools) ==
    IF pools = <<>> THEN <<>>
    ELSE IF Skipped(Head(pools)) THEN ScanLoop(Tail(pools))
    ELSE <<MakeOpportunity(Head(pools))>> \o ScanLoop(Tail(pools))

\* position at which a sort that reverses ties puts o into the sorted s
PlaceBeforeTies(s, o) == Cardinality({ i \in 1..Len(s) : s[i].apy > o.apy })

\* number of elements of the sorted s that stay in front of o: those with
\* an apy at least as large (list.sort is stable, also with reverse=True)
Place(s, o) == Cardinality({ i \in 1..Len(s) : s[i].apy >= o.apy })

\* opportunities.sort(key=lambda x: x.apy, reverse=True)
RECURSIVE SortByApy(_)
SortByApy(s) ==
    IF s = <<>> THEN <<>>
    ELSE LET front == SortByApy(SubSeq(s, 1, Len(s) - 1))
             o == s[Len(s)]
             k == Place(front, o)
         IN  SubSeq(front, 1, k) \o <<o>> \o SubSeq(front, k + 1, Len(front))

\* self.metrics[key] += n; a key the dict does not hold raises KeyError
HasKey(d, key) == key \in DOMAIN d
\* a "+=" that adds 1 whatever its right-hand side is
BumpByOne(d, key, n) == [d EXCEPT ![key] = @ + 1]
Bump(d, key, n) == [d EXCEPT ![key] = @ + n]

\* scan_opportunities: the list is assigned before the two counters are
\* updated, so a KeyError of the counters leaves the new list in place
ScanOpportunities(pools) ==
    /\ HasKey(metrics, "checks") => metrics.checks < MaxChecks
    /\ \E found \in {SortByApy(ScanLoop(pools))} :
       /\ opportunities' = found
       /\ IF ~HasKey(metrics, "checks")
          THEN /\ UNCHANGED metrics
               /\ sret' = [op |-> "scan_opportunities", pools |-> pools,
                           outcome |-> "raised"]
          ELSE IF ~HasKey(metrics, "opportunities_found")
          THEN /\ metrics' = Bump(metrics, "checks", 1)
               /\ sret' = [op |-> "scan_opportunities", pools |-> pools,
                           outcome |-> "raised"]
          ELSE /\ metrics' = Bump(Bump(metrics, "checks", 1),
                                  "opportunities_found", Len(found))
               /\ sret' = [op |-> "scan_opportunities", pools |-> pools,
                           outcome |-> "returned", val |-> found]
    /\ UNCHANGED <<min_apy, auto_execute, state, running, transactions>>
    /\ UNCHANGED <<copyVars, predVars, shareVars>>

\* get_best_opportunity: the first of the list, or None
GetBestOpportunity ==
    /\ sret' = [op |-> "get_best_opportunity",
                val |-> IF opportunities = <<>> THEN None
                        ELSE opportunities[1]]
    /\ UNCHANGED <<min_apy, opportunities, metrics, auto_execute, state,
                   running, transactions>>
    /\ UNCHANGED <<copyVars, predVars, shareVars>>

Start ==
    /\ IF running
       THEN UNCHANGED <<running, state>>
       ELSE running' = TRUE /\ state' = "IDLE"
    /\ sret' = [op |-> "start"]
    /\ UNCHANGED <<min_apy, opportunities, metrics, auto_execute, transactions>>
    /\ UNCHANGED <<copyVars, predVars, shareVars>>

Stop ==
    /\ running' = FALSE
    /\ state' = "STOPPED"
    /\ sret' = [op |-> "stop"]
    /\ UNCHANGED <<min_apy, opportunities, metrics, auto_execute, transactions>>
    /\ UNCHANGED <<copyVars, predVars, shareVars>>

\* any(p.lower() in opportunity.protocol.lower() for p in known_protocols),
\* on the protocol names of the inputs
KnownProtocol(protocol) == protocol \in {"PancakeSwap", "Venus", "Alpaca Finance"}

\* a score in tenths whose APY contribution for APY < 50 is 0.2
RawScoreHighApyPart(opp) ==
      (IF opp.tvl >= 1000000 THEN 3 ELSE IF opp.tvl >= 100000 THEN 2 ELSE 0)
    + (IF opp.apy >= 100 THEN 0 - 2 ELSE IF opp.apy >= 50 THEN 0 - 1 ELSE 2)
    + (IF KnownProtocol(opp.protocol) THEN 2 ELSE 0 - 1)

\* the score of analyze_risk before it is clipped, in tenths
RawScore(opp) ==
      (IF opp.tvl >= 1000000 THEN 3 ELSE IF opp.tvl >= 100000 THEN 2 ELSE 0)
    + (IF opp.apy >= 100 THEN 0 - 2 ELSE IF opp.apy >= 50 THEN 0 - 1 ELSE 1)
    + (IF KnownProtocol(opp.protocol) THEN 2 ELSE 0 - 1)

\* score = max(0.0, min(1.0, score)), in tenths
Clip(x) == Max(0, Min(10, x))

\* RiskLevel with MEDIUM from 0.5 on
RiskLevelFromHalf(score) ==
    IF score >= 7 THEN "LOW" ELSE IF score >= 5 THEN "MEDIUM" ELSE "HIGH"

\* risk levels of analyze_risk: >= 0.7 LOW, >= 0.4 MEDIUM, else HIGH
RiskLevel(score) ==
    IF score >= 7 THEN "LOW" ELSE IF score >= 4 THEN "MEDIUM" ELSE "HIGH"

RiskAnalysis(opp) ==
    LET score == Clip(RawScore(opp)) IN
    [ opportunity |-> opp.pool_name,
      score |-> score,
      risk_level |-> RiskLevel(score),
      recommendation |-> IF score >= 5 THEN "EXECUTE" ELSE "WAIT" ]

AnalyzeRisk(opp) ==
    /\ sret' = [op |-> "analyze_risk", opportunity |-> opp,
                val |-> RiskAnalysis(opp)]
    /\ UNCHANGED <<min_apy, opportunities, metrics, auto_execute, state,
                   running, transactions>>
    /\ UNCHANGED <<copyVars, predVars, shareVars>>

\* generate_strategy: the risk analysis of the best opportunity; of the
\* strategy dict the model keeps the keys computed from it
GenerateStrategy ==
    /\ sret' = [op |-> "generate_strategy",
                val |-> IF opportunities = <<>>
                        THEN [status |-> "NO_OPPORTUNITIES"]
                        ELSE LET best == opportunities[1]
                                 risk_analysis == RiskAnalysis(best)
                             IN  [ best_opportunity |-> best.pool_name,
                                   risk_analysis |-> risk_analysis,
                                   recommendation |->
                                       risk_analysis.recommendation,
                                   next_action |->
                                       IF risk_analysis.recommendation = "WAIT"
                                       THEN "SCAN" ELSE "EXECUTE" ]]
    /\ UNCHANGED <<min_apy, opportunities, metrics, auto_execute, state,
                   running, transactions>>
    /\ UNCHANGED <<copyVars, predVars, shareVars>>

\* the Transaction of execute_strategy; amount_usd in cents
MakeTransaction(opp) ==
    [ tx_hash |-> "0x00", action |-> "SWAP",
      from_token |-> opp.token_pair[1], to_token |-> opp.token_pair[2],
      amount_usd |-> 10000, status |-> "PENDING" ]

\* ExecuteStrategy's test with the sense of the flag reversed
ManualApprovalNever(flag) == flag

\* "if not self.config.auto_execute: ... return None"
ManualApproval(flag) == ~flag

\* execute_strategy.  With auto_execute set, state becomes EXECUTING, then
\* token_pair.split("/")[1] raises IndexError for a pair without "/", and
\* metrics["executed"] += 1 raises KeyError after the append when the
\* counter is missing; state returns to IDLE only at the end.
ExecuteStrategy(opp) ==
    /\ Len(transactions) < MaxTransactions
    /\ IF ManualApproval(auto_execute)
       THEN /\ sret' = [op |-> "execute_strategy", outcome |-> "returned",
                        val |-> None]
            /\ UNCHANGED <<state, transactions, metrics>>
       ELSE IF Len(opp.token_pair) < 2
       THEN /\ state' = "EXECUTING"
            /\ sret' = [op |-> "execute_strategy", outcome |-> "raised"]
            /\ UNCHANGED <<transactions, metrics>>
       ELSE IF ~HasKey(metrics, "executed")
       THEN /\ state' = "EXECUTING"
            /\ transactions' = Append(transactions, MakeTransaction(opp))
            /\ sret' = [op |-> "execute_strategy", outcome |-> "raised"]
            /\ UNCHANGED metrics
       ELSE /\ state' = "IDLE"
            /\ transactions' = Append(transactions, MakeTransaction(opp))
            /\ metrics' = Bump(metrics, "executed", 1)
            /\ sret' = [op |-> "execute_strategy", outcome |-> "returned",
                        val |-> MakeTransaction(opp)]
    /\ UNCHANGED <<min_apy, opportunities, auto_execute, running>>
    /\ UNCHANGED <<copyVars, predVars, shareVars>>

\* a dict without keys
EmptyDict == [k \in {} |-> 0]

\* load_state: only FileNotFoundError is caught.  json.load raises
\* JSONDecodeError on a malformed file, data.get raises AttributeError when
\* the document is not an object, and data.get("metrics", {}) replaces
\* self.metrics by {} when the object has no "metrics".
LoadState(file) ==
    /\ IF file.kind = "missing"
       THEN /\ sret' = [op |-> "load_state", file |-> file.kind,
                        outcome |-> "returned"]
            /\ UNCHANGED metrics
       ELSE IF file.kind \in {"malformed", "array"}
       THEN /\ sret' = [op |-> "load_state", file |-> file.kind,
                        outcome |-> "raised"]
            /\ UNCHANGED metrics
       ELSE /\ metrics' = IF file.metrics = {} THEN EmptyDict
                          ELSE CHOOSE m \in file.metrics : TRUE
            /\ sret' = [op |-> "load_state", file |-> file.kind,
                        outcome |-> "returned"]
    /\ UNCHANGED <<min_apy, opportunities, auto_execute, state, running,
                   transactions>>
    /\ UNCHANGED <<copyVars, predVars, shareVars>>

AgentInit ==
    /\ opportunities = <<>>
    /\ metrics = [checks |-> 0, opportunities_found |-> 0, executed |-> 0,
                  errors |-> 0]
    /\ sret = [op |-> "init"]
    /\ state = "IDLE"
    /\ running = FALSE
    /\ transactions = <<>>

(***************************************************************************)
(* StrategySharer.  A dict is a function from its keys to their values;    *)
(* times are minutes, as for the predictor.                                *)
(***************************************************************************)
\* d.get(k, default)
Get(d, k, default) == IF k \in DOMAIN d THEN d[k] ELSE default

\* d after d[k] = v
SetKey(d, k, v) == [x \in DOMAIN d \cup {k} |-> IF x = k THEN v ELSE d[x]]

\* self.secret_key
SecretKey == "test_secret"

\* _create_signable_message: the JSON text of every item but the signature.
\* json.dumps(..., sort_keys=True) gives equal texts for equal dicts only,
\* so the text is represented by the dict it encodes.
CreateSignableMessage(data) ==
    [k \in DOMAIN data \ {"signature"} |-> data[k]]

\* _sign_message: sha256 of the message followed by the key.  The hash is
\* taken as free of collisions: signatures are equal for equal messages only.
SignMessage(message) == [sha256_of |-> message, key |-> SecretKey]

\* the share_data of create_share_code, before it is signed
ShareData(strategy, creator_address, creator_name, expires_hours, t) ==
    [k \in {"pool_name", "protocol", "chain", "min_apy", "max_slippage",
            "risk_level", "description", "creator_name", "creator_address",
            "created_at", "expires_at"} |->
        CASE k = "pool_name" -> Get(strategy, k, "")
          [] k = "protocol" -> Get(strategy, k, "")
          [] k = "chain" -> Get(strategy, k, "BSC")
          [] k = "min_apy" -> Get(strategy, k, 5)
          [] k = "max_slippage" -> Get(strategy, k, 1)
          [] k = "risk_level" -> Get(strategy, k, "MEDIUM")
          [] k = "description" -> Get(strategy, k, "")
          [] k = "creator_name" -> creator_name
          [] k = "creator_address" -> creator_address
          [] k = "created_at" -> t
          [] k = "expires_at" -> t + 60 * expires_hours]

\* _encode_share_code writes the time stamp into the dict it is handed
WithTimestamp(data, t) == SetKey(data, "_ts", t)

\* create_share_code.  The share code is 12 characters of the encoded text
\* (the same for every strategy) and 4 characters of a checksum: the
\* checksum is the input code, and a code in use is overwritten.
CreateShareCode(strategy, creator_address, creator_name, expires_hours, code) ==
    LET share_data == ShareData(strategy, creator_address, creator_name,
                                expires_hours, now)
        signature == SignMessage(CreateSignableMessage(share_data))
        signed == SetKey(share_data, "signature", signature)
        stored == WithTimestamp(signed, now)
    IN  /\ share_codes' = SetKey(share_codes, code, stored)
        /\ hret' = [op |-> "create_share_code", code |-> code,
                    strategy |-> strategy, signature |-> signature]
        /\ UNCHANGED <<copyVars, predVars, agentVars>>

\* "if datetime.now() > expires_at"
Expired(data, t) == t > data["expires_at"]

\* the dict verify_share_code returns for a code that has not expired
Verified(data) ==
    SetKey(data, "verified",
           Get(data, "signature", None)
             = SignMessage(CreateSignableMessage(data)))

\* the outcome of verify_share_code: "none", "expired" or "data"
VerifyOutcome(code) ==
    IF code \notin DOMAIN share_codes THEN "none"
    ELSE IF Expired(share_codes[code], now) THEN "expired"
    ELSE "data"

\* share_codes after verify_share_code(code)
VerifyEffect(code) ==
    CASE VerifyOutcome(code) = "none" -> share_codes
      [] VerifyOutcome(code) = "expired" ->
            [x \in DOMAIN share_codes \ {code} |-> share_codes[x]]
      [] VerifyOutcome(code) = "data" ->
            SetKey(share_codes, code, Verified(share_codes[code]))

VerifyShareCode(code) ==
    /\ share_codes' = VerifyEffect(code)
    /\ hret' = IF VerifyOutcome(code) = "data"
               THEN [op |-> "verify_share_code", code |-> code,
                     outcome |-> "data",
                     val |-> Verified(share_codes[code])]
               ELSE [op |-> "verify_share_code", code |-> code,
                     outcome |-> VerifyOutcome(code)]
    /\ UNCHANGED <<copyVars, predVars, agentVars>>

\* the strategy parameters import_strategy returns
Imported(data) ==
    [k \in {"pool_name", "protocol", "chain", "min_apy", "max_slippage",
            "risk_level", "creator_address", "creator_name"} |-> data[k]]

ImportStrategy(code) ==
    /\ share_codes' = VerifyEffect(code)
    /\ hret' = IF VerifyOutcome(code) = "data"
               THEN [op |-> "import_strategy", code |-> code,
                     outcome |-> "data",
                     val |-> Imported(share_codes[code])]
               ELSE [op |-> "import_strategy", code |-> code,
                     outcome |-> VerifyOutcome(code)]
    /\ UNCHANGED <<copyVars, predVars, agentVars>>

ShareInit ==
    /\ share_codes = <<>>
    /\ hret = [op |-> "init"]

Batches == UNION { [1..n -> ScanPools] : n \in 0..MaxPools }
ShortBatches == UNION { [1..n -> ScanPools] : n \in 0..1 }
PairBatches == UNION { [1..n -> ScanPools] : n \in 0..2 }

RiskOpps == Opps(RiskTvls, RiskApys, Protocols, {<<"CAKE", "USDT">>})
ExecOpps == Opps({1000000}, {25}, {"PancakeSwap"}, TokenPairs)

(***************************************************************************)
(* Specifications.                                                         *)
(***************************************************************************)
vars == <<traders, followers, orders, strategies, stats, ret,
          pool_data, predictions_cache, now, pret,
          min_apy, opportunities, metrics, sret,
          auto_execute, state, running, transactions,
          share_codes, hret>>

\* every component as its constructor leaves it, with the default config
Init ==
    CopyInit /\ PredInit /\ AgentInit /\ ShareInit /\ min_apy = 5 /\ auto_execute = FALSE

\* the agent constructed with a StrategyConfig(min_apy=...)
ConfiguredInit ==
    CopyInit /\ PredInit /\ AgentInit /\ ShareInit /\ min_apy \in MinApys
    /\ auto_execute = FALSE

\* the predictor after the snapshots of one pool were appended
HistoryInit ==
    /\ CopyInit /\ AgentInit /\ ShareInit /\ min_apy = 5 /\ auto_execute = FALSE
    /\ predictions_cache = <<>>
    /\ pret = [op |-> "init"]
    /\ now \in CallTimes
    /\ \E a \in PredPools, n \in HistoryLengths, shape \in Shapes,
          spacing \in Spacings :
          pool_data = IF n = 0 THEN <<>>
                      ELSE [x \in {a} |->
                              MakeHistory(a, n, shape, spacing, now)]

\* the agent constructed with a StrategyConfig(auto_execute=...)
ExecutorInit ==
    CopyInit /\ PredInit /\ AgentInit /\ ShareInit /\ min_apy = 5
    /\ auto_execute \in BOOLEAN

\* follow / unfollow / copy_order, for the lead trader
CopyNext ==
    \/ \E fa \in FollowerAddrs, t \in LeadTrader, prm \in FollowerParams :
          FollowTrader(fa, t, prm)
    \/ \E fa \in FollowerAddrs, t \in LeadTrader : UnfollowTrader(fa, t)
    \/ \E t \in LeadTrader, p \in OnePool, amount \in Amounts :
          CopyOrder(t, p, "BUY", amount)

\* copy_order under the per-(follower, pool) strategies: strategies are
\* set for both pools and both followers, orders are copied for one pool
GateNext ==
    \/ \E fw \in GateFollows, t \in LeadTrader :
          FollowTrader(fw[1], t, fw[2])
    \/ \E fa \in FollowerAddrs, p \in PoolAddrs, auto \in BOOLEAN :
          AddStrategy(fa, p, auto)
    \/ \E fa \in FollowerAddrs, p \in PoolAddrs : RemoveStrategy(fa, p)
    \/ \E t \in LeadTrader, p \in OnePool, amount \in Amounts :
          CopyOrder(t, p, "BUY", amount)

\* the life cycle of the orders
OrdersNext ==
    \/ \E fa \in FollowerAddrs, t \in LeadTrader, prm \in FollowerParams :
          FollowTrader(fa, t, prm)
    \/ \E t \in LeadTrader, p \in PoolAddrs, ot \in OrderTypes, amount \in Amounts :
          CopyOrder(t, p, ot, amount)
    \/ \E tok \in Tokens : ExecuteOrder(OrderId(tok))
    \/ \E tok \in Tokens : CancelOrder(OrderId(tok))

\* the registries of traders and followers
FollowNext ==
    \/ \E a \in TraderAddrs : RegisterTrader(a)
    \/ \E fa \in FollowerAddrs, t \in TraderAddrs, prm \in FollowerParams :
          FollowTrader(fa, t, prm)
    \/ \E fa \in FollowerAddrs, t \in TraderAddrs : UnfollowTrader(fa, t)

\* every operation of the manager that has a "not found" case, called
\* for registered and unregistered traders, followers, keys and ids
ManagerNext ==
    \/ \E a \in LeadTrader : RegisterTrader(a)
    \/ \E fw \in ManagerFollows, t \in LeadTrader :
          FollowTrader(fw[1], t, fw[2])
    \/ \E fa \in FollowerAddrs, t \in TraderAddrs : UnfollowTrader(fa, t)
    \/ \E fw \in ManagerFollows, p \in OnePool : AddStrategy(fw[1], p, TRUE)
    \/ \E fa \in FollowerAddrs, p \in OnePool : RemoveStrategy(fa, p)
    \/ \E t \in TraderAddrs, p \in OnePool, amount \in PnlAmounts :
          CopyOrder(t, p, "BUY", amount)
    \/ \E tok \in Tokens : ExecuteOrder(OrderId(tok))
    \/ \E tok \in Tokens : CancelOrder(OrderId(tok))
    \/ \E tok \in Tokens, pr \in ManagerPrices :
          CalculatePnl(OrderId(tok), pr[1], pr[2])
    \/ \E a \in TraderAddrs, upd \in ManagerUpdates : UpdateTraderStats(a, upd)

\* the profit and loss of copied orders, computed once or repeatedly
PnlNext ==
    \/ \E fw \in ManagerFollows, t \in LeadTrader :
          FollowTrader(fw[1], t, fw[2])
    \/ \E t \in LeadTrader, p \in OnePool, amount \in PnlAmounts :
          CopyOrder(t, p, "BUY", amount)
    \/ \E tok \in Tokens : ExecuteOrder(OrderId(tok))
    \/ \E tok \in Tokens : CancelOrder(OrderId(tok))
    \/ \E tok \in Tokens, pr \in PnlPrices :
          CalculatePnl(OrderId(tok), pr[1], pr[2])

\* the leaderboard over registered, loaded, updated and followed traders
BoardNext ==
    \/ \E a \in TraderAddrs : RegisterTrader(a)
    \/ \E file \in BoardFiles : LoadData(file)
    \/ \E a \in TraderAddrs, upd \in StatUpdates : UpdateTraderStats(a, upd)
    \/ \E fw \in ManagerFollows, t \in TraderAddrs :
          FollowTrader(fw[1], t, fw[2])
    \/ \E limit \in Limits : GetLeaderboard(limit)

\* the agent: its life cycle, scans, risk analysis and execution
AgentNext ==
    \/ Start
    \/ Stop
    \/ \E pools \in ShortBatches : ScanOpportunities(pools)
    \/ \E opp \in RiskOpps : AnalyzeRisk(opp)
    \/ GenerateStrategy
    \/ \E opp \in ExecOpps : ExecuteStrategy(opp)

\* loading the persisted state, and the operations that follow it
LoadNext ==
    \/ \E file \in TraderFiles : LoadData(file)
    \/ \E a \in TraderAddrs : RegisterTrader(a)
    \/ \E file \in AgentFiles : LoadState(file)
    \/ \E pools \in ShortBatches : ScanOpportunities(pools)
    \/ \E opp \in ExecOpps : ExecuteStrategy(opp)

\* the history store and the prediction cache
PredNext ==
    \/ \E a \in PredPools, apy \in StoreApys, tvl \in Tvls, volume \in Volumes,
          timestamp \in StampArgs :
          AddDataPoint(a, apy, tvl, volume, timestamp)
    \/ \E a \in PredPools, name \in PoolNames : Predict(a, name)
    \/ \E d \in TickSteps : Tick(d)

\* predictions and risk analyses over the histories
FeatNext ==
    \/ \E a \in PredPools, name \in PoolNames : Predict(a, name)
    \/ \E a \in PredPools : GetRiskAnalysis(a)

\* scans, each followed or not by get_best_opportunity, on an agent whose
\* counters were constructed or loaded
BestNext ==
    \/ \E pools \in PairBatches : ScanOpportunities(pools)
    \/ GetBestOpportunity
    \/ \E file \in AgentFiles : LoadState(file)

\* share codes: created, verified, imported, expiring
ShareNext ==
    \/ \E strategy \in ShareStrategies, creator \in Creators,
          expires_hours \in ExpiresHours, code \in ShareCodes :
          CreateShareCode(strategy, creator[1], creator[2], expires_hours, code)
    \/ \E code \in AnyCodes : VerifyShareCode(code)
    \/ \E code \in AnyCodes : ImportStrategy(code)
    \/ \E d \in TickSteps : Tick(d)

\* the opportunity scanner
ScanNext == \E pools \in Batches : ScanOpportunities(pools)

SpecCopy == Init /\ [][CopyNext]_vars
SpecGate == Init /\ [][GateNext]_vars
SpecOrders == Init /\ [][OrdersNext]_vars
SpecFollow == Init /\ [][FollowNext]_vars
SpecManager == Init /\ [][ManagerNext]_vars
SpecBoard == Init /\ [][BoardNext]_vars
SpecPnl == Init /\ [][PnlNext]_vars
SpecPred == Init /\ [][PredNext]_vars
SpecFeat == HistoryInit /\ [][FeatNext]_vars
SpecScan == ConfiguredInit /\ [][ScanNext]_vars
SpecAgent == ExecutorInit /\ [][AgentNext]_vars
SpecLoad == ExecutorInit /\ [][LoadNext]_vars
SpecShare == Init /\ [][ShareNext]_vars
SpecBest == ConfiguredInit /\ [][BestNext]_vars

(***************************************************************************)
(* Claims about CopyTradingManager.                                        *)
(***************************************************************************)
IsCopyStep == ret'.op = "copy_order"

\* strictly increasing maps from the positions of val into those of fl
Embeddings(val, fl) ==
    { m \in [1..Len(val) -> 1..Len(fl)] :
        \A i, j \in 1..Len(val) : i < j => m[i] < m[j] }

\* the ids under which the step stored something new
Touched == { id \in DOMAIN orders' :
               id \notin DOMAIN orders \/ orders'[id] # orders[id] }

\* C1: every order a copy_order call creates is created for a follower entry
\* of the trader, taken in list order, and its amount_usd lies between that
\* entry's min_investment and max_investment; so an entry with
\* max_investment < min_investment gets no order.
C1_AmountWithinLimits ==
    [][ IsCopyStep =>
          LET fl == GetFollowers(ret'.trader)
              val == ret'.val
          IN  /\ \E m \in Embeddings(val, fl) :
                    \A i \in 1..Len(val) :
                        /\ val[i].follower_address = fl[m[i]].address
                        /\ fl[m[i]].min_investment <= val[i].amount_usd
                        /\ val[i].amount_usd <= fl[m[i]].max_investment
              /\ \A id \in Touched : \E i \in 1..Len(val) : val[i] = orders'[id]
      ]_vars

\* a copy of 3000 USD was capped at the 1000 USD limit of one follower while
\* the other follower, with max_investment < min_investment, got no order
C1_Witness ==
    /\ ret.op = "copy_order"
    /\ ret.amount = 300000
    /\ Len(ret.val) = 1
    /\ ret.val[1].amount_usd = 100000
    /\ Len(GetFollowers(ret.trader)) = 2
    /\ \E i \in 1..2 : GetFollowers(ret.trader)[i].max_investment
                           < GetFollowers(ret.trader)[i].min_investment

\* C2 (as claimed): execute_order or cancel_order on an order that is
\* already EXECUTED or CANCELLED returns false and leaves its status.
C2_TerminalIsFinal ==
    [][ \A id \in DOMAIN orders :
          ( /\ orders[id].status \in {"EXECUTED", "CANCELLED"}
            /\ ret'.op \in {"execute_order", "cancel_order"}
            /\ ret'.id = id )
          => ( ret'.val = FALSE /\ orders'[id].status = orders[id].status )
      ]_vars

\* the entries of fl that copy_order of (pool, amount) is to serve, stated
\* from the claim: not gated off by an auto_copy = false strategy of the
\* (follower, pool) pair, and the capped amount reaches min_investment
Capped(amount, f) ==
    LET share == (amount * f.allocation_percent) \div 100
    IN  IF share < f.max_investment THEN share ELSE f.max_investment

Blocking(fa, p) ==
    \E k \in DOMAIN strategies :
        k = fa \o ":" \o p /\ strategies[k].auto_copy = FALSE

Served(fl, p, amount) ==
    { i \in 1..Len(fl) :
        ~Blocking(fl[i].address, p) /\ Capped(amount, fl[i]) >= fl[i].min_investment }

\* the last position of val that holds the id
LastWith(val, id) ==
    CHOOSE i \in 1..Len(val) :
        /\ val[i].order_id = id
        /\ \A j \in (i + 1)..Len(val) : val[j].order_id # id

\* C4: copy_order returns one PENDING order per served follower entry, in
\* list order, with amount_usd = min(amount * allocation / 100,
\* max_investment), and the orders it stores are exactly the returned ones.
C4_OneOrderPerServedFollower ==
    [][ IsCopyStep =>
          LET fl == GetFollowers(ret'.trader)
              val == ret'.val
              served == Served(fl, ret'.pool, ret'.amount)
              ids == { val[i].order_id : i \in 1..Len(val) }
          IN  /\ Len(val) = Cardinality(served)
              /\ \E m \in Embeddings(val, fl) :
                    \A i \in 1..Len(val) :
                        /\ m[i] \in served
                        /\ val[i].follower_address = fl[m[i]].address
                        /\ val[i].amount_usd = Capped(ret'.amount, fl[m[i]])
                        /\ val[i].status = "PENDING"
                        /\ val[i].trader_address = ret'.trader
                        /\ val[i].pool_address = ret'.pool
              /\ DOMAIN orders' = DOMAIN orders \cup ids
              /\ \A id \in DOMAIN orders' :
                    orders'[id] = IF id \in ids THEN val[LastWith(val, id)]
                                  ELSE orders[id]
      ]_vars

\* the scenario of the specification: 100 USD copied to followers with
\* allocations 50% and 100% gives orders of 50 and 100 USD
C4_Witness ==
    /\ ret.op = "copy_order"
    /\ ret.amount = 10000
    /\ Len(ret.val) = 2
    /\ ret.val[1].amount_usd = 5000 /\ ret.val[1].status = "PENDING"
    /\ ret.val[2].amount_usd = 10000 /\ ret.val[2].status = "PENDING"
    /\ ret.val[1].order_id \in DOMAIN orders
    /\ ret.val[2].order_id \in DOMAIN orders

\* C5 (as claimed): the ids copy_order allocates are new and distinct, no
\* stored order is overwritten, and the order set grows by the number of
\* orders returned.
C5_FreshOrderIds ==
    [][ IsCopyStep =>
          LET val == ret'.val IN
          /\ \A i \in 1..Len(val) : val[i].order_id \notin DOMAIN orders
          /\ \A i, j \in 1..Len(val) :
                i # j => val[i].order_id # val[j].order_id
          /\ \A id \in DOMAIN orders : orders'[id] = orders[id]
          /\ Cardinality(DOMAIN orders') = Cardinality(DOMAIN orders) + Len(val)
      ]_vars

RECURSIVE SumLen(_, _)
SumLen(fs, ts) ==
    IF ts = {} THEN 0
    ELSE LET t == CHOOSE x \in ts : TRUE
         IN  Len(fs[t]) + SumLen(fs, ts \ {t})

\* the number of follower entries over all traders
FollowerEntries(fs) == SumLen(fs, DOMAIN fs)

\* C7: total_followers is the number of follower entries over all lists; an
\* unfollow_trader that finds the follower returns true and removes one
\* entry and one unit of the counter; one that does not returns false and
\* changes neither the counter nor any list.
C7_TotalFollowers ==
    /\ [](stats.total_followers = FollowerEntries(followers))
    /\ [][ ret'.op = "unfollow_trader" =>
             LET fl == GetFollowers(ret'.trader)
                 present == \E i \in 1..Len(fl) : fl[i].address = ret'.follower
             IN  /\ ret'.val = present
                 /\ present =>
                       /\ stats'.total_followers = stats.total_followers - 1
                       /\ FollowerEntries(followers')
                            = FollowerEntries(followers) - 1
                 /\ ~present =>
                       /\ stats'.total_followers = stats.total_followers
                       /\ followers' = followers
         ]_vars

\* a follower that followed the same trader twice has unfollowed once
C7_Witness ==
    /\ ret.op = "unfollow_trader"
    /\ ret.val = TRUE
    /\ stats.total_followers = 1
    /\ Len(GetFollowers(ret.trader)) = 1
    /\ GetFollowers(ret.trader)[1].address = ret.follower

\* C8: copy_order creates no order for a follower with an auto_copy = false
\* strategy for (follower, pool of the order); every other follower entry
\* whose capped amount reaches its min_investment gets its order, whatever
\* strategies exist for other pools or followers.
C8_StrategyGate ==
    [][ IsCopyStep =>
          LET fl == GetFollowers(ret'.trader)
              val == ret'.val
          IN  /\ \A i \in 1..Len(val) :
                    ~Blocking(val[i].follower_address, ret'.pool)
              /\ \A a \in FollowerAddrs :
                    Cardinality({ i \in 1..Len(val) : val[i].follower_address = a })
                    = Cardinality({ i \in Served(fl, ret'.pool, ret'.amount) :
                                      fl[i].address = a })
      ]_vars

\* one follower was skipped for its auto_copy = false strategy on the pool
\* of the order while the other follower got its order
C8_Witness ==
    /\ ret.op = "copy_order"
    /\ Len(GetFollowers(ret.trader)) = 2
    /\ Len(ret.val) = 1
    /\ \E i \in 1..2 :
          /\ Blocking(GetFollowers(ret.trader)[i].address, ret.pool)
          /\ GetFollowers(ret.trader)[i].address # ret.val[1].follower_address
          /\ ret.amount * GetFollowers(ret.trader)[i].allocation_percent
               >= 100 * GetFollowers(ret.trader)[i].min_investment
          /\ GetFollowers(ret.trader)[i].max_investment
               >= GetFollowers(ret.trader)[i].min_investment

\* C9 (as claimed): every order of the order set has amount_usd > 0.
C9_PositiveAmount ==
    \A id \in DOMAIN orders : orders[id].amount_usd > 0

(***************************************************************************)
(* Claims about APYPredictor.                                              *)
(***************************************************************************)
\* C3 (as claimed): a predict that follows, within 5 minutes and with no
\* append to the pool in between, the predict that computed and cached the
\* pool's Prediction completes without error and returns that Prediction.
C3_CachedPredictionReturned ==
    [][ ( /\ pret.op = "predict"
          /\ pret.outcome = "computed"
          /\ pret'.op = "predict"
          /\ pret'.pool = pret.pool
          /\ pret'.at - pret.at < CacheTTL )
        => ( pret'.outcome # "raised" /\ pret'.val = pret.val )
      ]_vars

\* current_apy and confidence as the present history of the pool gives them
ReflectsHistory(p, a) ==
    /\ p.current_apy = IF History(a) = <<>> THEN DefaultApy
                       ELSE History(a)[Len(History(a))].apy
    /\ p.confidence = IF Len(History(a)) >= 28 THEN 2850
                      ELSE 900 + 70 * Len(History(a))

\* C6: add_data_point leaves no cache entry for its pool and leaves the
\* entries of the other pools as they are; so every cached Prediction, and
\* every Prediction a predict computes, is one of the present history.
C6_AppendInvalidates ==
    /\ [](\A a \in DOMAIN predictions_cache :
             ReflectsHistory(predictions_cache[a], a))
    /\ [][ pret'.op = "add_data_point" =>
             /\ pret'.pool \notin DOMAIN predictions_cache'
             /\ DOMAIN predictions_cache'
                  = DOMAIN predictions_cache \ {pret'.pool}
             /\ \A a \in DOMAIN predictions_cache' :
                   predictions_cache'[a] = predictions_cache[a]
         ]_vars
    /\ [][ ( pret.op = "add_data_point" /\ pret'.op = "predict"
             /\ pret'.pool = pret.pool )
           => ( pret'.outcome = "computed"
                /\ ReflectsHistory(pret'.val, pret'.pool) )
         ]_vars

\* an append has dropped the cached Prediction of its pool, the Prediction
\* of the other pool is still cached
C6_Witness ==
    /\ pret.op = "add_data_point"
    /\ pret.dropped
    /\ Len(History(pret.pool)) = 2
    /\ \E a \in DOMAIN predictions_cache : a # pret.pool

(***************************************************************************)
(* Claims about AutoDeFiAgent.                                             *)
(***************************************************************************)
\* the pools of the batch that pass both filters, as the claim states them
Qualifying(pools) ==
    SelectSeq(pools, LAMBDA q : q.apy >= min_apy /\ q.tvl >= 10000)

AddressesWithApy(s, apy, addr(_)) ==
    LET same == SelectSeq(s, LAMBDA x : x.apy = apy)
    IN  [i \in 1..Len(same) |-> addr(same[i])]

PoolAddress(q) == q.pool_address
ContractAddress(o) == o.contract_address

\* C10: scan returns the qualifying pools of the batch, each once, by
\* non-increasing apy, pools of equal apy in the order of the batch.
C10_ScanFiltersAndSorts ==
    sret.op = "scan_opportunities" =>
       LET q == Qualifying(sret.pools)
           val == sret.val
       IN  /\ Len(val) = Len(q)
           /\ \A i \in 1..Len(val) :
                 val[i].apy >= min_apy /\ val[i].tvl >= 10000
           /\ \A i, j \in 1..Len(val) : i < j => val[i].apy >= val[j].apy
           /\ \A x \in ScanPools :
                 AddressesWithApy(val, x.apy, ContractAddress)
                 = AddressesWithApy(q, x.apy, PoolAddress)
           /\ ( /\ min_apy = 5
                /\ \A i \in 1..Len(sret.pools) :
                      sret.pools[i].apy = 5 /\ sret.pools[i].tvl = 5000 )
              => val = <<>>

\* a batch with a pool below the TVL floor and two pools of equal apy in
\* front of and behind a pool of lower apy
C10_Witness ==
    /\ sret.op = "scan_opportunities"
    /\ Len(sret.pools) = 3
    /\ Len(sret.val) = 2
    /\ sret.val[1].apy = sret.val[2].apy
    /\ sret.val[1].contract_address = "0x4"
    /\ sret.val[2].contract_address = "0x2"
    /\ \E i \in 1..3 : sret.pools[i].tvl < 10000

(***************************************************************************)
(* Missing-data cases of the manager.                                      *)
(***************************************************************************)
\* the step is a call of the operation op of the manager
IsCall(op) == ret' # ret /\ ret'.op = op
\* no follower entry of trader t has the address fa
NotFollowing(fa, t) ==
    \A i \in 1..Len(GetFollowers(t)) : GetFollowers(t)[i].address # fa
\* the step leaves the registries, the orders and the counters as they were
ManagerUntouched ==
    UNCHANGED <<traders, followers, orders, strategies, stats>>

\* C11: execute_order, cancel_order and calculate_pnl on an unknown id,
\* unfollow_trader for an absent follower, update_trader_stats for an
\* unregistered trader, copy_order for a trader without followers and
\* remove_strategy for an absent key return False, 0.0, None or [] without
\* raising and change none of traders, followers, orders, strategies, stats.
C11_NeutralOnMissing ==
    [][ /\ IsCall("execute_order") /\ ret'.id \notin DOMAIN orders
            => ret'.val = FALSE /\ ManagerUntouched
        /\ IsCall("cancel_order") /\ ret'.id \notin DOMAIN orders
            => ret'.val = FALSE /\ ManagerUntouched
        /\ IsCall("calculate_pnl") /\ ret'.id \notin DOMAIN orders
            => ret'.outcome = "returned" /\ ret'.val = 0 /\ ManagerUntouched
        /\ IsCall("unfollow_trader") /\ NotFollowing(ret'.follower, ret'.trader)
            => ret'.val = FALSE /\ ManagerUntouched
        /\ IsCall("update_trader_stats") /\ TraderIndex(ret'.trader) = 0
            => ret'.val = None /\ ManagerUntouched
        /\ IsCall("copy_order") /\ GetFollowers(ret'.trader) = <<>>
            => ret'.val = <<>> /\ ManagerUntouched
        /\ IsCall("remove_strategy") /\ ret'.key \notin DOMAIN strategies
            => ret'.val = FALSE /\ ManagerUntouched
      ]_vars

\* calculate_pnl with entry_price 0 (no return value would follow for a
\* stored id) came back with 0.0 for an id that is not stored, while
\* orders, followers and a registered trader exist
C11_Witness ==
    /\ ret.op = "calculate_pnl" /\ ret.outcome = "returned" /\ ret.val = 0
    /\ ret.id \notin DOMAIN orders
    /\ orders # <<>> /\ traders # <<>> /\ followers # <<>>

\* C12 (as claimed): no core operation fails with a division by zero;
\* calculate_pnl with entry_price = 0 completes and returns a value.  (The
\* divisions of the predictor have floor denominators; calculate_pnl
\* divides by entry_price as it is.)
C12_NoDivisionByZero ==
    ret.op = "calculate_pnl" => ret.outcome = "returned"

(***************************************************************************)
(* The history store.                                                      *)
(***************************************************************************)
\* C13 (as claimed): each pool's history is ordered by non-decreasing
\* snapshot timestamp, whatever timestamps the appends carried.
C13_HistorySorted ==
    \A a \in DOMAIN pool_data :
        \A i, j \in 1..Len(pool_data[a]) :
            i < j => pool_data[a][i].timestamp <= pool_data[a][j].timestamp

\* C14 (as claimed): in every reachable state, time advancing between the
\* operations, every snapshot of every history has a timestamp no older
\* than max_history_days before the current time.
C14_HistoryWithinWindow ==
    \A a \in DOMAIN pool_data :
        \A i \in 1..Len(pool_data[a]) :
            pool_data[a][i].timestamp >= now - HistoryMinutes

(***************************************************************************)
(* Claims about AutoDeFiAgent.                                             *)
(***************************************************************************)
\* C15: with auto_execute = false, execute_strategy returns None and
\* leaves the transaction list, the executed counter and the agent state
\* as they were, for any opportunity and in any agent state; the
\* transaction list only ever changes when auto_execute is true.
C15_ManualApproval ==
    [][ /\ (sret'.op = "execute_strategy" /\ ~auto_execute)
            => /\ sret'.outcome = "returned" /\ sret'.val = None
               /\ UNCHANGED <<transactions, metrics, state, running,
                              opportunities>>
        /\ transactions' # transactions => auto_execute
      ]_vars

\* execute_strategy was refused on a stopped agent that holds opportunities
C15_Witness ==
    /\ sret.op = "execute_strategy" /\ sret.outcome = "returned"
    /\ sret.val = None
    /\ ~auto_execute
    /\ state = "STOPPED"
    /\ opportunities # <<>>
    /\ transactions = <<>>

\* C16 (as claimed): load_data and load_state on a missing or unreadable
\* file (malformed JSON, missing keys) never raise, and the operations
\* that follow (scan_opportunities updating its counters) still work.
C16_LoadNeverRaises ==
    /\ ret.op = "load_data" => ret.outcome = "returned"
    /\ sret.op = "load_state" => sret.outcome = "returned"
    /\ sret.op = "scan_opportunities" => sret.outcome = "returned"

\* C17: analyze_risk returns a score within [0,1] (tenths: 0..10),
\* risk_level LOW exactly when score >= 0.7, MEDIUM exactly when
\* 0.4 <= score < 0.7, HIGH otherwise, and EXECUTE exactly when
\* score >= 0.5, else WAIT; EXECUTE never comes with HIGH, and a known
\* protocol with TVL >= 1,000,000 and APY < 50 is never rated HIGH.
C17_RiskLevels ==
    sret.op = "analyze_risk" =>
        LET v == sret.val
            o == sret.opportunity
        IN  /\ v.score \in 0..10
            /\ v.risk_level \in {"LOW", "MEDIUM", "HIGH"}
            /\ v.risk_level = "LOW" <=> v.score >= 7
            /\ v.risk_level = "MEDIUM" <=> (v.score >= 4 /\ v.score < 7)
            /\ v.recommendation \in {"EXECUTE", "WAIT"}
            /\ v.recommendation = "EXECUTE" <=> v.score >= 5
            /\ ~(v.recommendation = "EXECUTE" /\ v.risk_level = "HIGH")
            /\ (KnownProtocol(o.protocol) /\ o.tvl >= 1000000 /\ o.apy < 50)
                  => v.risk_level # "HIGH"

\* a pool of a known protocol with TVL 1,000,000 and APY 50 was analyzed:
\* its score is 0.4, on the boundary of MEDIUM, and the advice is WAIT
C17_Witness ==
    /\ sret.op = "analyze_risk"
    /\ KnownProtocol(sret.opportunity.protocol)
    /\ sret.opportunity.tvl = 1000000 /\ sret.opportunity.apy = 50
    /\ sret.val.score = 4
    /\ sret.val.risk_level = "MEDIUM"
    /\ sret.val.recommendation = "WAIT"

(***************************************************************************)
(* The leaderboard.                                                        *)
(***************************************************************************)
\* the composite score of the claim, in hundredths, of a leaderboard entry
Composite(e) ==
      40 * e.avg_return + 9 * e.win_rate
    + (IF e.total_trades >= 100 THEN 100 ELSE e.total_trades)
    + (IF e.followers >= 50 THEN 100 ELSE 2 * e.followers)
    + (IF e.is_verified THEN 100 ELSE 0)

\* entry e shows the registered trader of its address as it is now
ShowsTrader(e) ==
    \E i \in 1..Len(traders) :
        /\ traders[i].address = e.address
        /\ traders[i].total_trades = e.total_trades
        /\ traders[i].win_rate = e.win_rate
        /\ traders[i].avg_return = e.avg_return
        /\ traders[i].followers = e.followers
        /\ traders[i].is_verified = e.is_verified

\* C18: get_leaderboard(limit) returns min(limit, number of registered
\* traders) entries, one per trader, each with the composite score of its
\* trader, ordered by non-increasing score; it changes no trader,
\* follower, order or stats state, and a second call right after the first
\* returns the same list.  (limit is a count: 0 or more.)
C18_Leaderboard ==
    /\ [](ret.op = "get_leaderboard" =>
            /\ Len(ret.val) = Min(ret.limit, Len(traders))
            /\ \A i \in 1..Len(ret.val) :
                  /\ ShowsTrader(ret.val[i])
                  /\ ret.val[i].score = Composite(ret.val[i])
            /\ \A i, j \in 1..Len(ret.val) :
                  /\ i < j => ret.val[i].score >= ret.val[j].score
                  /\ i # j => ret.val[i].address # ret.val[j].address)
    /\ [][ ret'.op = "get_leaderboard" =>
             /\ UNCHANGED <<traders, followers, orders, strategies, stats>>
             /\ (ret.op = "get_leaderboard" /\ ret.limit = ret'.limit)
                   => ret'.val = ret.val
         ]_vars

\* a leaderboard of one entry out of two traders: the trader registered
\* second is ahead of the one registered first
C18_Witness ==
    /\ ret.op = "get_leaderboard" /\ ret.limit = 1
    /\ Len(traders) = 2 /\ Len(ret.val) = 1
    /\ ret.val[1].address = traders[2].address
    /\ ret.val[1].score > Composite(traders[1])
    /\ Composite(traders[1]) > 0

(***************************************************************************)
(* Claims about the predictions of APYPredictor.                           *)
(***************************************************************************)
\* predict has returned a Prediction, computed or out of the cache
PredictReturned ==
    pret.op = "predict" /\ pret.outcome \in {"computed", "cached"}

\* C19: every Prediction that predict returns has predicted_apy_24h >= 0
\* and predicted_apy_7d >= 0 and a confidence within [0.3, 0.95]; a
\* Prediction computed over a history of 28 snapshots or more has
\* confidence 0.95.  (confidence in units of 1/3000.)
C19_PredictionBounds ==
    PredictReturned =>
        /\ pret.val.predicted_apy_24h[1] >= 0
        /\ pret.val.predicted_apy_7d[1] >= 0
        /\ pret.val.confidence \in 900..2850
        /\ (pret.outcome = "computed" /\ Len(History(pret.pool)) >= 28)
              => pret.val.confidence = 2850

\* a Prediction over 28 falling snapshots: the pool still yields, the
\* extrapolation is below zero and is returned as 0, confidence is 0.95
C19_Witness ==
    /\ PredictReturned /\ pret.outcome = "computed"
    /\ Len(History(pret.pool)) = 28
    /\ pret.val.current_apy > 0
    /\ pret.val.trend = "DOWN"
    /\ pret.val.predicted_apy_24h = R(0)
    /\ pret.val.predicted_apy_7d = R(0)
    /\ pret.val.confidence = 2850

\* C20 (as claimed): predict for a pool without a recorded snapshot does
\* not raise and returns a Prediction with the requested pool_name, trend
\* STABLE, current_apy 5, confidence 0.3 and recommendation HOLD;
\* get_risk_analysis for such a pool returns risk_level UNKNOWN.
C20_NoHistoryDefaults ==
    [][ /\ ( pret'.op = "predict" /\ History(pret'.pool) = <<>> )
           => /\ pret'.outcome # "raised"
              /\ \E name \in PoolNames :
                    /\ <<Predict(pret'.pool, name)>>_vars
                    /\ pret'.val.pool_name = name
              /\ pret'.val.trend = "STABLE"
              /\ pret'.val.current_apy = DefaultApy
              /\ pret'.val.confidence = 900
              /\ pret'.val.recommendation = "HOLD"
        /\ ( pret'.op = "get_risk_analysis" /\ History(pret'.pool) = <<>> )
           => pret'.val.risk_level = "UNKNOWN"
      ]_vars

(***************************************************************************)
(* Claims about StrategySharer.                                            *)
(***************************************************************************)
\* verify_share_code or import_strategy has found its code stored and
\* unexpired
CodeAccepted ==
    /\ hret.op \in {"verify_share_code", "import_strategy"}
    /\ hret.outcome = "data"

\* C21 (as claimed): verifying or importing an unexpired share code on the
\* sharer that created it returns the stored strategy and leaves the stored
\* dict with verified = true: the signature recomputed at verification
\* equals the one stored at creation, on the first and on every repeated
\* verification.
C21_ShareCodeVerifies ==
    CodeAccepted =>
        /\ share_codes[hret.code]["verified"] = TRUE
        /\ share_codes[hret.code]["signature"]
             = SignMessage(CreateSignableMessage(share_codes[hret.code]))
        /\ \A k \in DOMAIN Imported(share_codes[hret.code]) :
              hret.val[k] = share_codes[hret.code][k]

(***************************************************************************)
(* Claims about the opportunity list of AutoDeFiAgent.                     *)
(***************************************************************************)
\* the step is a scan_opportunities that returned
ScanReturned ==
    /\ vars' # vars
    /\ sret'.op = "scan_opportunities"
    /\ sret'.outcome = "returned"

\* C22: after a scan_opportunities(pools) that returned, the opportunity
\* list is the returned list, which holds one opportunity per qualifying
\* pool of the batch and nothing else; checks has grown by 1 and
\* opportunities_found by the length of the result.  get_best_opportunity
\* returns an element of the list whose apy is the maximum of the list, or
\* None when the list is empty.
C22_ScanReplacesList ==
    /\ [][ ScanReturned =>
             /\ opportunities' = sret'.val
             /\ Len(opportunities') = Len(Qualifying(sret'.pools))
             /\ \A i \in 1..Len(opportunities') :
                   \E j \in 1..Len(sret'.pools) :
                      /\ sret'.pools[j].pool_address
                           = opportunities'[i].contract_address
                      /\ sret'.pools[j].apy = opportunities'[i].apy
             /\ metrics'.checks = metrics.checks + 1
             /\ metrics'.opportunities_found
                  = metrics.opportunities_found + Len(sret'.val)
         ]_vars
    /\ [](sret.op = "get_best_opportunity" =>
            IF opportunities = <<>> THEN sret.val = None
            ELSE /\ \E i \in 1..Len(opportunities) : sret.val = opportunities[i]
                 /\ \A i \in 1..Len(opportunities) :
                       sret.val.apy >= opportunities[i].apy)

\* the best of a list of two that the second scan found, after a first
\* scan had found another opportunity
C22_Witness ==
    /\ sret.op = "get_best_opportunity"
    /\ HasKey(metrics, "checks") /\ HasKey(metrics, "opportunities_found")
    /\ metrics.checks = 2
    /\ metrics.opportunities_found = 3
    /\ Len(opportunities) = 2
    /\ sret.val.apy = 25
    /\ opportunities[2].apy = 15

(***************************************************************************)
(* Claims about the counters of CopyTradingManager.                        *)
(***************************************************************************)
\* C23 (as claimed): after any sequence of register_trader, follow_trader
\* and unfollow_trader calls, the followers count of every registered
\* trader equals the number of entries of that trader's follower list.
C23_FollowersCountMatchesList ==
    \A i \in 1..Len(traders) :
       traders[i].followers = Len(GetFollowers(traders[i].address))

\* C27 (as claimed): after any sequence of register_trader and load_data
\* calls, stats.total_traders equals the number of distinct addresses in
\* the registry.
C27_TotalTradersMatchesRegistry ==
    stats.total_traders = Cardinality({ traders[i].address : i \in 1..Len(traders) })

\* the sum of the pnl fields of the orders with the given ids
RECURSIVE SumPnl(_)
SumPnl(ids) ==
    IF ids = {} THEN 0
    ELSE LET id == CHOOSE x \in ids : TRUE
         IN  orders[id].pnl + SumPnl(ids \ {id})

\* C28 (as claimed): after any sequence of copy_order, execute_order,
\* cancel_order and calculate_pnl calls, stats.total_pnl equals the sum of
\* the pnl fields of all orders in the order set.
C28_TotalPnlIsSumOfOrders ==
    stats.total_pnl = SumPnl(DOMAIN orders)

\* C29 (as claimed): after unfollow_trader(f, t) has returned true, no
\* follower entry with address f is in t's follower list, and a copy_order
\* for t that comes next creates no order for f.
C29_UnfollowRemovesFollower ==
    /\ []( (ret.op = "unfollow_trader" /\ ret.val) =>
             NotFollowing(ret.follower, ret.trader) )
    /\ [][ ( /\ ret.op = "unfollow_trader" /\ ret.val
             /\ ret'.op = "copy_order" /\ ret'.trader = ret.trader )
           => \A i \in 1..Len(ret'.val) :
                 ret'.val[i].follower_address # ret.follower
         ]_vars

(***************************************************************************)
(* Claims about the recommendation and the features of APYPredictor.       *)
(***************************************************************************)
\* (predicted_24h - current_apy) / max(current_apy, 0.01) of a Prediction
ChangeRatio(p) ==
    RDiv(RSub(p.predicted_apy_24h, R(p.current_apy)),
         FloorHundredth(p.current_apy))

\* predict has computed a Prediction
PredictComputed == pret.op = "predict" /\ pret.outcome = "computed"

\* C24: a computed Prediction is HOLD when its confidence is below 0.5,
\* which is so for every pool with fewer than 9 snapshots; otherwise, the
\* risk score being at most 0.7, it is BUY exactly if the trend is UP and
\* the change ratio is above 0.08, SELL exactly if the trend is DOWN and
\* the ratio is below -0.08, and HOLD in every other case.
C24_Recommendation ==
    PredictComputed =>
        LET p == pret.val
            h == History(pret.pool)
            risk_score == RiskScore(ExtractFeatures(h, now), p.confidence)
            buy == p.trend = "UP" /\ RLt(Frac(8, 100), ChangeRatio(p))
            sell == p.trend = "DOWN" /\ RLt(ChangeRatio(p), Frac(-8, 100))
        IN  /\ Len(h) < 9 => p.confidence < 1500
            /\ p.confidence < 1500 => p.recommendation = "HOLD"
            /\ (p.confidence >= 1500 /\ risk_score <= 7) =>
                  p.recommendation = IF buy THEN "BUY"
                                     ELSE IF sell THEN "SELL"
                                     ELSE "HOLD"

\* a Prediction with confidence above the threshold and trend UP whose
\* change ratio is too small for BUY
C24_Witness ==
    /\ PredictComputed
    /\ pret.val.confidence >= 1500
    /\ pret.val.trend = "UP"
    /\ RLt(R(0), ChangeRatio(pret.val))
    /\ pret.val.recommendation = "HOLD"

\* the snapshots of h whose timestamp lies within the window_size days
\* before t
InWindow(h, t) ==
    SelectSeq(h, LAMBDA p : p.timestamp >= t - WindowSize * DayMinutes)

\* C25: the features of a pool come from all its snapshots within the last
\* window_size days when at least min_data_points snapshots lie there,
\* however many they are, and from the full history otherwise; without
\* history they are all zero.
C25_FeaturesUseWholeWindow ==
    PredictComputed =>
        LET h == History(pret.pool)
            inside == InWindow(h, pret.at)
        IN  ExtractFeatures(h, pret.at) =
                IF Len(h) < MinDataPoints THEN DefaultFeatures
                ELSE IF Len(inside) >= MinDataPoints
                THEN FeaturesOf(inside, pret.at)
                ELSE FeaturesOf(h, pret.at)

(***************************************************************************)
(* The life cycle of the agent.                                            *)
(***************************************************************************)
\* the step is a call of the operation op of the agent
AgentCall(op) == vars' # vars /\ sret'.op = op

\* C26: start() sets running and state IDLE and changes nothing on a
\* running agent; stop() clears running and sets state STOPPED; a stopped
\* agent stays STOPPED and not running through every operation except
\* start().
C26_StoppedUntilStart ==
    [][ /\ AgentCall("start") =>
              IF running THEN UNCHANGED <<running, state>>
              ELSE running' /\ state' = "IDLE"
        /\ AgentCall("stop") => ~running' /\ state' = "STOPPED"
        /\ (state = "STOPPED" /\ ~running /\ ~AgentCall("start"))
              => (state' = "STOPPED" /\ ~running')
      ]_vars

(***************************************************************************)
(* The largest risk score.                                                 *)
(***************************************************************************)
\* the risk analysis that the last call of analyze_risk or generate_strategy
\* returned, if it returned one
ReturnedAnalyses ==
    IF sret.op = "analyze_risk" THEN {sret.val}
    ELSE IF sret.op = "generate_strategy" /\ HasKey(sret.val, "risk_analysis")
    THEN {sret.val.risk_analysis}
    ELSE {}

====
